---------------------------- MODULE Spec2Model ----------------------------
(***************************************************************************)
(* Model of the GitHub -> Discord webhook receiver (src/webhook_server.py), *)
(* its formatters (src/utils/formatters.py), the chat client's side of the  *)
(* hand-off (src/bot.py) and process start-up (src/main.py).                *)
(*                                                                          *)
(* Text is modelled as a sequence of one-character tokens, the raw request  *)
(* body as a sequence of byte values, a parsed JSON document as a tagged    *)
(* value, and a Python call that may raise as a record with a `raised`      *)
(* field.                                                                   *)
(***************************************************************************)
EXTENDS Integers, Sequences, FiniteSets, TLC

(***************************************************************************)
(* Bounds of the model.                                                     *)
(***************************************************************************)
\* the pending coroutines the chat client's loop may hold at once
MaxPending == 1
\* the webhook requests received in one run
MaxRequests == 2
\* of these, in a classification run, the ones that are not replays
MaxDistinct == 1

(***************************************************************************)
(* Header values.  request.headers.get(name) gives None for an absent       *)
(* header; `not value` is true of None and of the empty string.  A          *)
(* signature header carries text (a sequence of characters), an event       *)
(* header an event name.                                                    *)
(***************************************************************************)
NoSignature  == [present |-> FALSE, text |-> <<>>]
Signature(t) == [present |-> TRUE, text |-> t]
NoEvent      == [present |-> FALSE, name |-> ""]
Event(n)     == [present |-> TRUE, name |-> n]

(***************************************************************************)
(* Text helpers: str.startswith, str.split                                  *)
(***************************************************************************)
startswith(s, prefix) ==
    /\ Len(s) >= Len(prefix)
    /\ SubSeq(s, 1, Len(prefix)) = prefix

\* str.split(sep) for a one-character separator: the pieces between the
\* separators, in order (always at least one piece).
RECURSIVE split(_, _)
split(s, sep) ==
    IF \A i \in 1..Len(s) : s[i] # sep
    THEN <<s>>
    ELSE LET i == CHOOSE k \in 1..Len(s) :
                     /\ s[k] = sep
                     /\ \A j \in 1..(k - 1) : s[j] # sep
         IN  <<SubSeq(s, 1, i - 1)>> \o split(SubSeq(s, i + 1, Len(s)), sep)

(***************************************************************************)
(* HMAC-SHA256 and its lowercase hex rendering.  The digest is abstracted   *)
(* to DigestLen hex characters of a keyed polynomial hash over the bytes;   *)
(* NoCollision records that it separates the bodies and secrets used here   *)
(* (the collision resistance the real digest is relied on for).             *)
(***************************************************************************)
DigestLen == 4

HexDigits == <<"0", "1", "2", "3", "4", "5", "6", "7",
               "8", "9", "a", "b", "c", "d", "e", "f">>

RECURSIVE Pow(_, _)
Pow(b, n) == IF n = 0 THEN 1 ELSE b * Pow(b, n - 1)

DigestSpace == Pow(16, DigestLen)

\* hmac.new(secret, payload, hashlib.sha256): the keyed digest, as a number
RECURSIVE hmac_absorb(_, _)
hmac_absorb(h, bytes) ==
    IF bytes = <<>> THEN h
    ELSE hmac_absorb((h * 33 + Head(bytes) + 1) % DigestSpace, Tail(bytes))

hmac_new(secret, payload) ==
    hmac_absorb(hmac_absorb(5381, secret), payload)

\* .hexdigest(): DigestLen lowercase hex characters, most significant first
hexdigest(n) ==
    [i \in 1..DigestLen |->
        HexDigits[((n \div Pow(16, DigestLen - i)) % 16) + 1]]

\* characters outside ASCII that a header value can carry (latin-1)
NonAscii == {"U+00E9"}

\* hmac.compare_digest on two str: TypeError when either holds a non-ASCII
\* character, otherwise equality
compare_digest(a, b) ==
    IF \E i \in 1..Len(a) : a[i] \in NonAscii
       \/ \E j \in 1..Len(b) : b[j] \in NonAscii
    THEN [raised |-> TRUE, value |-> FALSE]
    ELSE [raised |-> FALSE, value |-> a = b]

SHA256_PREFIX == <<"s", "h", "a", "2", "5", "6", "=">>

(***************************************************************************)
(* verify_signature(payload, signature), with Config.GITHUB_WEBHOOK_SECRET  *)
(* passed as `secret`.  The result records whether the call raised, the     *)
(* boolean returned, whether an HMAC was computed and the warnings logged.  *)
(***************************************************************************)
verify_signature_hash_first(payload, signature, secret) ==
    LET expected_hash == hexdigest(hmac_new(secret, payload))
    IN  IF ~signature.present \/ signature.text = <<>>
        THEN [raised |-> FALSE, value |-> FALSE, hashed |-> TRUE,
              log |-> <<"No signature provided in webhook request">>]
        ELSE IF ~startswith(signature.text, SHA256_PREFIX)
        THEN [raised |-> FALSE, value |-> FALSE, hashed |-> TRUE,
              log |-> <<"Invalid signature format">>]
        ELSE LET received_hash == split(signature.text, "=")[2]
                 is_valid      == compare_digest(expected_hash, received_hash)
             IN  [raised |-> is_valid.raised,
                  value  |-> ~is_valid.raised /\ is_valid.value,
                  hashed |-> TRUE,
                  log    |-> IF is_valid.raised \/ is_valid.value THEN <<>>
                             ELSE <<"Webhook signature validation failed">>]

verify_signature(payload, signature, secret) ==
    IF ~signature.present \/ signature.text = <<>>
    THEN [raised |-> FALSE, value |-> FALSE, hashed |-> FALSE,
          log |-> <<"No signature provided in webhook request">>]
    ELSE IF ~startswith(signature.text, SHA256_PREFIX)
    THEN [raised |-> FALSE, value |-> FALSE, hashed |-> FALSE,
          log |-> <<"Invalid signature format">>]
    ELSE LET received_hash == split(signature.text, "=")[2]
             expected_hash == hexdigest(hmac_new(secret, payload))
             is_valid      == compare_digest(expected_hash, received_hash)
         IN  IF is_valid.raised
             THEN [raised |-> TRUE, value |-> FALSE, hashed |-> TRUE,
                   log |-> <<>>]
             ELSE [raised |-> FALSE, value |-> is_valid.value, hashed |-> TRUE,
                   log |-> IF is_valid.value THEN <<>>
                           ELSE <<"Webhook signature validation failed">>]

(***************************************************************************)
(* Parsed JSON.  A document is [kind, fields]: kind "object" with the       *)
(* record of its members, "array" (a non-empty JSON array) or "null".  A    *)
(* member that is absent is absent from the record.                         *)
(***************************************************************************)
EmptyFields == [k \in {} |-> 0]

Object(fields) == [kind |-> "object", fields |-> fields]
ArrayDoc       == [kind |-> "array", fields |-> EmptyFields]
NullDoc        == [kind |-> "null", fields |-> EmptyFields]

\* `not payload`: None, an empty object (an array here is never empty)
not_payload(payload) ==
    \/ payload.kind = "null"
    \/ payload.kind = "object" /\ DOMAIN payload.fields = {}

\* payload[k1][k2]... succeeds: every key on the path is present.  On a
\* document that is no object the subscript raises TypeError.
RECURSIVE HasPath(_, _)
HasPath(obj, path) ==
    \/ path = <<>>
    \/ /\ Head(path) \in DOMAIN obj
       /\ HasPath(obj[Head(path)], Tail(path))

subscriptable(payload, path) ==
    payload.kind = "object" /\ HasPath(payload.fields, path)

\* payload.get(key) on a dict: the member or None.  `present` is FALSE for
\* None; on a document that is no object .get raises AttributeError.
has_get(payload) == payload.kind = "object"

\* str.capitalize() on the action names that occur
capitalize(word) ==
    CASE word = "opened"      -> "Opened"
      [] word = "closed"      -> "Closed"
      [] word = "reopened"    -> "Reopened"
      [] word = "edited"      -> "Edited"
      [] word = "deleted"     -> "Deleted"
      [] word = "submitted"   -> "Submitted"
      [] word = "dismissed"   -> "Dismissed"
      [] word = "created"     -> "Created"
      [] word = "branch"      -> "Branch"
      [] word = "tag"         -> "Tag"
      [] OTHER                -> word

\* a commit message line longer than 100 characters, and its first 100
LongLine    == "a subject line of 150 characters"
LongLineCut == "the first 100 characters of the subject line"

\* line[:100]
first100(line) == IF line = LongLine THEN LongLineCut ELSE line

\* a review comment longer than 200 characters, and comment[:197] + "..."
LongComment    == "a review comment of 300 characters"
LongCommentCut == "the first 197 characters of the review comment..."

first197dots(comment) ==
    IF comment = LongComment THEN LongCommentCut ELSE comment

(***************************************************************************)
(* MessageFormatter.  An embed is a record; NoEmbed is Python's None.  The  *)
(* embed's timestamp (datetime.utcnow()) is not part of the record.  A      *)
(* formatter gives [raised, embed]: raised when a subscript finds a member  *)
(* absent (KeyError).                                                       *)
(***************************************************************************)
COLOR_BLUE   == 222934
COLOR_GREEN  == 2664261
COLOR_RED    == 14105161
COLOR_PURPLE == 7291585
COLOR_ORANGE == 16483584

NoEmbed == [present |-> FALSE]

Raised       == [raised |-> TRUE, embed |-> NoEmbed]
Returned(e)  == [raised |-> FALSE, embed |-> e]

\* format_commit_notification showing the last commit of the list
format_commit_notification_last_commit(payload) ==
    IF ~(/\ subscriptable(payload, <<"ref">>)
         /\ subscriptable(payload, <<"commits">>)
         /\ subscriptable(payload, <<"pusher", "name">>)
         /\ subscriptable(payload, <<"repository", "name">>)
         /\ subscriptable(payload, <<"compare">>))
    THEN Raised
    ELSE
    LET p           == payload.fields
        segs        == p.ref
        ref         == segs[Len(segs)]
        commits     == p.commits
        pusher      == p.pusher.name
        repo_name   == p.repository.name
        compare_url == p.compare
    IN  IF commits # <<>>
           /\ ~(/\ HasPath(commits[Len(commits)], <<"message">>)
                /\ HasPath(commits[Len(commits)], <<"author", "name">>)
                /\ HasPath(commits[Len(commits)], <<"url">>))
        THEN Raised
        ELSE
        LET message == IF commits # <<>>
                       THEN first100(commits[Len(commits)].message[1])
                       ELSE "No commit message"
            author  == IF commits # <<>> THEN commits[Len(commits)].author.name ELSE pusher
        IN  Returned([present     |-> TRUE,
                      kind        |-> "commit",
                      title       |-> [text |-> IF Len(commits) > 1
                                                THEN "New Commits to"
                                                ELSE "New Commit to",
                                       ref  |-> ref],
                      description |-> [bold |-> message],
                      color       |-> COLOR_BLUE,
                      url         |-> compare_url,
                      fields      |-> [Author  |-> author,
                                       Branch  |-> <<ref>>,
                                       Commits |-> Len(commits)],
                      footer      |-> repo_name])

format_commit_notification(payload) ==
    IF ~(/\ subscriptable(payload, <<"ref">>)
         /\ subscriptable(payload, <<"commits">>)
         /\ subscriptable(payload, <<"pusher", "name">>)
         /\ subscriptable(payload, <<"repository", "name">>)
         /\ subscriptable(payload, <<"compare">>))
    THEN Raised
    ELSE
    LET p           == payload.fields
        segs        == p.ref
        ref         == segs[Len(segs)]
        commits     == p.commits
        pusher      == p.pusher.name
        repo_name   == p.repository.name
        compare_url == p.compare
    IN  IF commits # <<>>
           /\ ~(/\ HasPath(commits[1], <<"message">>)
                /\ HasPath(commits[1], <<"author", "name">>)
                /\ HasPath(commits[1], <<"url">>))
        THEN Raised
        ELSE
        LET message == IF commits # <<>>
                       THEN first100(commits[1].message[1])
                       ELSE "No commit message"
            author  == IF commits # <<>> THEN commits[1].author.name ELSE pusher
        IN  Returned([present     |-> TRUE,
                      kind        |-> "commit",
                      title       |-> [text |-> IF Len(commits) > 1
                                                THEN "New Commits to"
                                                ELSE "New Commit to",
                                       ref  |-> ref],
                      description |-> [bold |-> message],
                      color       |-> COLOR_BLUE,
                      url         |-> compare_url,
                      fields      |-> [Author  |-> author,
                                       Branch  |-> <<ref>>,
                                       Commits |-> Len(commits)],
                      footer      |-> repo_name])

\* format_pull_request_notification taking no pull request as merged
format_pull_request_notification_unmerged(payload) ==
    IF ~(/\ subscriptable(payload, <<"action">>)
         /\ subscriptable(payload, <<"pull_request", "number">>)
         /\ subscriptable(payload, <<"pull_request", "title">>)
         /\ subscriptable(payload, <<"pull_request", "user", "login">>)
         /\ subscriptable(payload, <<"pull_request", "head", "ref">>)
         /\ subscriptable(payload, <<"pull_request", "base", "ref">>)
         /\ subscriptable(payload, <<"pull_request", "html_url">>))
    THEN Raised
    ELSE
    LET action == payload.fields.action
        pr     == payload.fields.pull_request
        merged == FALSE
        status == CASE action = "opened"            -> "Awaiting Review"
                    [] action = "closed" /\ merged  -> "Merged"
                    [] action = "closed" /\ ~merged -> "Closed"
                    [] action = "reopened"          -> "Reopened"
                    [] OTHER                        -> capitalize(action)
        color  == CASE action = "opened"            -> COLOR_BLUE
                    [] action = "closed" /\ merged  -> COLOR_PURPLE
                    [] action = "closed" /\ ~merged -> COLOR_RED
                    [] action = "reopened"          -> COLOR_ORANGE
                    [] OTHER                        -> COLOR_BLUE
        base   == [Author |-> pr.user.login,
                   Status |-> status,
                   Branch |-> <<pr.head.ref, "->", pr.base.ref>>]
    IN  Returned([present     |-> TRUE,
                  kind        |-> "pull_request",
                  title       |-> [text   |-> "Pull Request",
                                   number |-> pr.number,
                                   action |-> capitalize(action)],
                  description |-> [bold |-> pr.title],
                  color       |-> color,
                  url         |-> pr.html_url,
                  fields      |-> IF merged /\ HasPath(pr, <<"merged_by">>)
                                  THEN [Author    |-> base.Author,
                                        Status    |-> base.Status,
                                        Branch    |-> base.Branch,
                                        Merged_by |-> pr.merged_by.login]
                                  ELSE base])

format_pull_request_notification(payload) ==
    IF ~(/\ subscriptable(payload, <<"action">>)
         /\ subscriptable(payload, <<"pull_request", "number">>)
         /\ subscriptable(payload, <<"pull_request", "title">>)
         /\ subscriptable(payload, <<"pull_request", "user", "login">>)
         /\ subscriptable(payload, <<"pull_request", "head", "ref">>)
         /\ subscriptable(payload, <<"pull_request", "base", "ref">>)
         /\ subscriptable(payload, <<"pull_request", "html_url">>))
    THEN Raised
    ELSE
    LET action == payload.fields.action
        pr     == payload.fields.pull_request
        merged == IF "merged" \in DOMAIN pr THEN pr.merged ELSE FALSE
        status == CASE action = "opened"            -> "Awaiting Review"
                    [] action = "closed" /\ merged  -> "Merged"
                    [] action = "closed" /\ ~merged -> "Closed"
                    [] action = "reopened"          -> "Reopened"
                    [] OTHER                        -> capitalize(action)
        color  == CASE action = "opened"            -> COLOR_BLUE
                    [] action = "closed" /\ merged  -> COLOR_PURPLE
                    [] action = "closed" /\ ~merged -> COLOR_RED
                    [] action = "reopened"          -> COLOR_ORANGE
                    [] OTHER                        -> COLOR_BLUE
        base   == [Author |-> pr.user.login,
                   Status |-> status,
                   Branch |-> <<pr.head.ref, "->", pr.base.ref>>]
    IN  Returned([present     |-> TRUE,
                  kind        |-> "pull_request",
                  title       |-> [text   |-> "Pull Request",
                                   number |-> pr.number,
                                   action |-> capitalize(action)],
                  description |-> [bold |-> pr.title],
                  color       |-> color,
                  url         |-> pr.html_url,
                  fields      |-> IF merged /\ HasPath(pr, <<"merged_by">>)
                                  THEN [Author    |-> base.Author,
                                        Status    |-> base.Status,
                                        Branch    |-> base.Branch,
                                        Merged_by |-> pr.merged_by.login]
                                  ELSE base])

format_review_notification(payload) ==
    IF ~(/\ subscriptable(payload, <<"review", "user", "login">>)
         /\ subscriptable(payload, <<"review", "state">>)
         /\ subscriptable(payload, <<"review", "body">>)
         /\ subscriptable(payload, <<"review", "html_url">>)
         /\ subscriptable(payload, <<"pull_request", "number">>)
         /\ subscriptable(payload, <<"pull_request", "title">>))
    THEN Raised
    ELSE
    LET review  == payload.fields.review
        pr      == payload.fields.pull_request
        state   == review.state
        comment == IF review.body = "" THEN "No comment provided"
                   ELSE first197dots(review.body)
    IN  Returned([present     |-> TRUE,
                  kind        |-> "review",
                  title       |-> [text |-> "Review on PR", number |-> pr.number],
                  description |-> [bold |-> pr.title],
                  color       |-> CASE state = "approved" -> COLOR_GREEN
                                    [] state = "changes_requested" -> COLOR_RED
                                    [] OTHER -> COLOR_BLUE,
                  url         |-> review.html_url,
                  fields      |-> [Reviewer |-> review.user.login,
                                   Status   |->
                                       CASE state = "approved" -> "Approved"
                                         [] state = "changes_requested" ->
                                                "Changes Requested"
                                         [] OTHER -> "Commented",
                                   Comment  |-> comment]])

format_issue_notification(payload) ==
    IF ~(/\ subscriptable(payload, <<"action">>)
         /\ subscriptable(payload, <<"issue", "number">>)
         /\ subscriptable(payload, <<"issue", "title">>)
         /\ subscriptable(payload, <<"issue", "user", "login">>)
         /\ subscriptable(payload, <<"issue", "html_url">>))
    THEN Raised
    ELSE
    LET action == payload.fields.action
        issue  == payload.fields.issue
    IN  Returned([present     |-> TRUE,
                  kind        |-> "issue",
                  title       |-> [text   |-> "Issue",
                                   number |-> issue.number,
                                   action |-> capitalize(action)],
                  description |-> [bold |-> issue.title],
                  color       |-> CASE action = "opened" -> COLOR_GREEN
                                    [] action = "closed" -> COLOR_RED
                                    [] OTHER -> COLOR_BLUE,
                  url         |-> issue.html_url,
                  fields      |-> [Author |-> issue.user.login]])

format_branch_notification(payload, deleted) ==
    IF ~subscriptable(payload, <<"sender", "login">>)
    THEN Raised
    ELSE
    LET p        == payload.fields
        ref_type == IF "ref_type" \in DOMAIN p THEN p.ref_type ELSE "branch"
        ref      == IF "ref" \in DOMAIN p THEN p.ref ELSE <<"unknown">>
    IN  Returned([present     |-> TRUE,
                  kind        |-> "branch",
                  title       |-> [text   |-> capitalize(ref_type),
                                   action |-> IF deleted THEN "Deleted"
                                              ELSE "Created"],
                  description |-> [bold_code |-> ref],
                  color       |-> IF deleted THEN COLOR_RED ELSE COLOR_GREEN,
                  fields      |-> [By |-> p.sender.login]])

(***************************************************************************)
(* The event handlers of webhook_server.py.  Each gives [raised, embed,     *)
(* log]: the embed returned (NoEmbed for None), or raised when a subscript  *)
(* or a formatter raised, and the info lines logged.                        *)
(***************************************************************************)
HandlerRaised      == [raised |-> TRUE, embed |-> NoEmbed, log |-> <<>>]
HandlerNone(log)   == [raised |-> FALSE, embed |-> NoEmbed, log |-> log]

\* the formatter's result, then the handler's own info line
Formatted(result, line) ==
    IF result.raised THEN HandlerRaised
    ELSE [raised |-> FALSE, embed |-> result.embed, log |-> <<line>>]

\* handle_push_event without the skip of a push that has no commits
handle_push_event_no_skip(payload) ==
    Formatted(format_commit_notification(payload), "Processed push event")

handle_push_event(payload) ==
    IF ~has_get(payload) THEN HandlerRaised
    ELSE IF "commits" \notin DOMAIN payload.fields
            \/ payload.fields.commits = <<>>
    THEN HandlerNone(<<>>)
    ELSE Formatted(format_commit_notification(payload), "Processed push event")

\* handle_pull_request_event without the filter on the action
handle_pull_request_event_any_action(payload) ==
    IF ~subscriptable(payload, <<"action">>) THEN HandlerRaised
    ELSE Formatted(format_pull_request_notification(payload),
                   "Processed pull_request event")

handle_pull_request_event(payload) ==
    IF ~subscriptable(payload, <<"action">>) THEN HandlerRaised
    ELSE IF payload.fields.action \notin {"opened", "closed", "reopened"}
    THEN HandlerNone(<<>>)
    ELSE Formatted(format_pull_request_notification(payload),
                   "Processed pull_request event")

\* handle_review_event without the filter on the action
handle_review_event_any_action(payload) ==
    IF ~subscriptable(payload, <<"action">>) THEN HandlerRaised
    ELSE Formatted(format_review_notification(payload),
                   "Processed pull_request_review event")

handle_review_event(payload) ==
    IF ~subscriptable(payload, <<"action">>) THEN HandlerRaised
    ELSE IF payload.fields.action # "submitted"
    THEN HandlerNone(<<>>)
    ELSE Formatted(format_review_notification(payload),
                   "Processed pull_request_review event")

\* handle_review_comment_event with the notification of created comments
\* switched on
handle_review_comment_event_enabled(payload) ==
    IF ~subscriptable(payload, <<"action">>) THEN HandlerRaised
    ELSE IF payload.fields.action # "created"
    THEN HandlerNone(<<>>)
    ELSE IF ~(/\ subscriptable(payload, <<"comment", "body">>)
              /\ subscriptable(payload, <<"pull_request", "number">>))
    THEN HandlerRaised
    ELSE [raised |-> FALSE,
          embed  |-> [present     |-> TRUE,
                      kind        |-> "review_comment",
                      title       |-> [text   |-> "Comment on PR",
                                       number |->
                                           payload.fields.pull_request.number],
                      description |-> [bold |-> payload.fields.comment.body],
                      color       |-> COLOR_BLUE],
          log    |-> <<"Processed pull_request_review_comment event">>]

handle_review_comment_event(payload) ==
    IF ~subscriptable(payload, <<"action">>) THEN HandlerRaised
    ELSE IF payload.fields.action # "created"
    THEN HandlerNone(<<>>)
    ELSE HandlerNone(<<"Skipped pull_request_review_comment event">>)

\* handle_issue_event without the filter on the action
handle_issue_event_any_action(payload) ==
    IF ~subscriptable(payload, <<"action">>) THEN HandlerRaised
    ELSE Formatted(format_issue_notification(payload),
                   "Processed issues event")

handle_issue_event(payload) ==
    IF ~subscriptable(payload, <<"action">>) THEN HandlerRaised
    ELSE IF payload.fields.action \notin {"opened", "closed", "reopened"}
    THEN HandlerNone(<<>>)
    ELSE Formatted(format_issue_notification(payload),
                   "Processed issues event")

\* handle_create_event without the filter on ref_type
handle_create_event_any_ref(payload) ==
    IF ~has_get(payload) THEN HandlerRaised
    ELSE Formatted(format_branch_notification(payload, FALSE),
                   "Processed create event")

handle_create_event(payload) ==
    IF ~has_get(payload) THEN HandlerRaised
    ELSE IF "ref_type" \notin DOMAIN payload.fields
            \/ payload.fields.ref_type # "branch"
    THEN HandlerNone(<<>>)
    ELSE Formatted(format_branch_notification(payload, FALSE),
                   "Processed create event")

handle_delete_event(payload) ==
    IF ~has_get(payload) THEN HandlerRaised
    ELSE IF "ref_type" \notin DOMAIN payload.fields
            \/ payload.fields.ref_type # "branch"
    THEN HandlerNone(<<>>)
    ELSE Formatted(format_branch_notification(payload, TRUE),
                   "Processed delete event")

\* the chain with an unknown event type treated as an error
dispatch_strict(event_type, payload) ==
    CASE event_type = "push"                -> handle_push_event(payload)
      [] event_type = "pull_request"        -> handle_pull_request_event(payload)
      [] event_type = "pull_request_review" -> handle_review_event(payload)
      [] event_type = "pull_request_review_comment" ->
                                     handle_review_comment_event(payload)
      [] event_type = "issues"              -> handle_issue_event(payload)
      [] event_type = "create"              -> handle_create_event(payload)
      [] event_type = "delete"              -> handle_delete_event(payload)
      [] OTHER -> HandlerRaised

\* the if/elif chain of handle_webhook (lines 95-117)
dispatch(event_type, payload) ==
    CASE event_type = "push"                -> handle_push_event(payload)
      [] event_type = "pull_request"        -> handle_pull_request_event(payload)
      [] event_type = "pull_request_review" -> handle_review_event(payload)
      [] event_type = "pull_request_review_comment" ->
                                     handle_review_comment_event(payload)
      [] event_type = "issues"              -> handle_issue_event(payload)
      [] event_type = "create"              -> handle_create_event(payload)
      [] event_type = "delete"              -> handle_delete_event(payload)
      [] OTHER -> HandlerNone(<<"Unhandled event type">>)

(***************************************************************************)
(* The JSON documents that request bodies carry.                            *)
(***************************************************************************)
Without(rec, key) == [k \in DOMAIN rec \ {key} |-> rec[k]]

Commit(subject) ==
    [message |-> <<subject, "body text">>,
     author  |-> [name |-> "alice"],
     url     |-> "https://example/commit"]

PushFields(commits) ==
    [ref        |-> <<"refs", "heads", "main">>,
     commits    |-> commits,
     pusher     |-> [name |-> "bob"],
     repository |-> [name |-> "repo"],
     compare    |-> "https://example/compare"]

PullRequest(merged) ==
    [number   |-> 7,
     title    |-> "Add parser",
     user     |-> [login |-> "alice"],
     head     |-> [ref |-> "feature"],
     base     |-> [ref |-> "main"],
     html_url |-> "https://example/pull/7",
     merged   |-> merged]

PullRequestFields(action, merged) ==
    [action |-> action, pull_request |-> PullRequest(merged)]

ReviewFields(action, state, body) ==
    [action       |-> action,
     review       |-> [user     |-> [login |-> "carol"],
                       state    |-> state,
                       body     |-> body,
                       html_url |-> "https://example/review"],
     pull_request |-> PullRequest(FALSE)]

ReviewCommentFields(action) ==
    [action       |-> action,
     comment      |-> [body |-> "nit"],
     pull_request |-> PullRequest(FALSE)]

IssueFields(action) ==
    [action |-> action,
     issue  |-> [number   |-> 3,
                 title    |-> "Crash on start",
                 user     |-> [login |-> "dave"],
                 html_url |-> "https://example/issues/3"]]

RefFields(ref_type) ==
    [ref_type |-> ref_type,
     ref      |-> <<"feature">>,
     sender   |-> [login |-> "erin"]]

Documents ==
    << \* push
       Object(PushFields(<<Commit(LongLine), Commit("Second")>>)),
       Object(PushFields(<<Commit("Fix bug")>>)),
       Object(PushFields(<<>>)),
       Object(Without(PushFields(<<>>), "commits")),
       Object(Without(PushFields(<<Commit("Fix bug")>>), "ref")),
       \* pull_request
       Object(PullRequestFields("opened", FALSE)),
       Object(PullRequestFields("closed", TRUE)),
       Object(PullRequestFields("closed", FALSE)),
       Object(PullRequestFields("reopened", FALSE)),
       Object(PullRequestFields("edited", FALSE)),
       Object(Without(PullRequestFields("opened", FALSE), "action")),
       Object(Without(PullRequestFields("opened", FALSE), "pull_request")),
       \* pull_request_review
       Object(ReviewFields("submitted", "approved", LongComment)),
       Object(ReviewFields("submitted", "commented", "")),
       Object(ReviewFields("dismissed", "dismissed", "")),
       \* pull_request_review_comment
       Object(ReviewCommentFields("created")),
       Object(ReviewCommentFields("deleted")),
       \* issues
       Object(IssueFields("opened")),
       Object(IssueFields("closed")),
       Object(IssueFields("reopened")),
       Object(IssueFields("deleted")),
       Object(Without(IssueFields("opened"), "issue")),
       \* create, delete
       Object(RefFields("branch")),
       Object(RefFields("tag")),
       Object(Without(RefFields("branch"), "ref_type")),
       Object(Without(RefFields("branch"), "sender")),
       \* other
       Object([zen |-> "Keep it logically awesome."]),
       Object(EmptyFields),
       ArrayDoc,
       NullDoc,
       \* push, three commits
       Object(PushFields(<<Commit("First"), Commit("Second"),
                           Commit("Third")>>)) >>

(***************************************************************************)
(* Raw bodies.  A body is a sequence of bytes; here the first byte selects  *)
(* the document the body spells and the second its whitespace layout, so    *)
(* several bodies parse to the same document.  Byte 0 first, or no bytes at *)
(* all, is not JSON.                                                        *)
(***************************************************************************)
Body(doc, layout) == <<doc, layout>>

\* request.json, for a JSON content type: the parsed document, or raised
\* (werkzeug's BadRequest) when the bytes are not JSON
json_loads(data) ==
    IF data = <<>> \/ data[1] \notin 1..Len(Documents)
    THEN [raised |-> TRUE, value |-> NullDoc]
    ELSE [raised |-> FALSE, value |-> Documents[data[1]]]

(***************************************************************************)
(* State.                                                                   *)
(***************************************************************************)
VARIABLES
    config,                \* the required environment variables, each
                           \* "absent", "malformed" or "valid"
    phase,                 \* start-up: "import", "validate", "run", or
                           \* "crashed" / "exited" when the process ended
    interaction,           \* the last slash command run and what came of it
    secret,                \* Config.GITHUB_WEBHOOK_SECRET, as bytes
    process,               \* the script run: "main" or "webhook_server"
    server,                \* the Flask app: "stopped" or "serving"
    discord_bot,           \* webhook_server.discord_bot: "None" or "bot"
    loop,                  \* bot.loop: "sentinel" until the bot starts
    notification_channel,  \* bot.notification_channel: "None" or "channel"
    pending,               \* coroutines submitted to bot.loop, not yet run
    sends,                 \* the send_notification runs so far, oldest first
    serial,                \* the number of webhook requests received so far
    request,               \* the last request handled by the Flask app
    response,              \* the response it was given
    trace                  \* what handling it did: steps, embed, log

vars == <<config, phase, interaction, secret, process, server, discord_bot,
          loop,
          notification_channel, pending, sends, serial, request, response,
          trace>>

Json(content) == [content_type |-> "application/json", content |-> content]
\* the page Flask renders for an HTTPException or an unhandled exception
Html(name)    == [content_type |-> "text/html", content |-> [page |-> name]]

Response(status, body) == [status |-> status, body |-> body]

NoRequest ==
    [route        |-> "none",
     signature    |-> NoSignature,
     event_type   |-> NoEvent,
     content_type |-> "application/json",
     data         |-> <<>>]

NoResponse == [status |-> 0,
               body   |-> [content_type |-> "none", content |-> [page |-> ""]]]

NoTrace == [steps |-> {}, embed |-> NoEmbed, log |-> <<>>]

\* request.data: the raw bytes of the body, as received
request_data_reserialized(req) ==
    IF req.data = <<>> THEN req.data ELSE Body(req.data[1], 0)

request_data(req) == req.data

(***************************************************************************)
(* handle_webhook: the response, what was done and what is handed to the    *)
(* chat client's loop, for a request `req` in the given server state.       *)
(***************************************************************************)
\* lines 119-126: hand the embed to the bot's loop and answer success.
\* asyncio.run_coroutine_threadsafe raises on the loop sentinel a bot that
\* has not started carries (AttributeError, caught at line 128).
hand_off(embed, steps, log, bot, bot_loop) ==
    IF embed.present /\ bot # "None"
    THEN IF bot_loop = "sentinel"
         THEN [response |-> Response(500, Json([error |-> "Internal server error"])),
               trace    |-> [steps |-> steps, embed |-> embed,
                             log |-> Append(log, "Error processing webhook")],
               submit   |-> <<>>]
         ELSE [response |-> Response(200, Json([status |-> "success"])),
               trace    |-> [steps |-> steps \cup {"submit"}, embed |-> embed,
                             log |-> log],
               submit   |-> <<embed>>]
    ELSE [response |-> Response(200, Json([status |-> "success"])),
          trace    |-> [steps |-> steps, embed |-> embed, log |-> log],
          submit   |-> <<>>]

\* the try block, classifying only when a bot is attached
process_event_skip_without_bot(event_type, payload, steps, log, bot, bot_loop) ==
    IF bot = "None"
    THEN [response |-> Response(200, Json([status |-> "success"])),
          trace    |-> [steps |-> steps, embed |-> NoEmbed,
                        log |-> Append(log, "Received event")],
          submit   |-> <<>>]
    ELSE LET handled == dispatch(event_type, payload)
             steps2  == steps \cup {"classify"}
             log2    == Append(log, "Received event") \o handled.log
         IN  IF handled.raised
             THEN [response |-> Response(500, Json([error |->
                                                "Internal server error"])),
                   trace    |-> [steps |-> steps2, embed |-> NoEmbed,
                                 log |-> Append(log2,
                                                "Error processing webhook")],
                   submit   |-> <<>>]
             ELSE hand_off(handled.embed, steps2, log2, bot, bot_loop)

\* lines 89-130: the try block
process_event(event_type, payload, steps, log, bot, bot_loop) ==
    LET handled == dispatch(event_type, payload)
        steps2  == steps \cup {"classify"}
        log2    == Append(log, "Received event") \o handled.log
    IN  IF handled.raised
        THEN [response |-> Response(500, Json([error |-> "Internal server error"])),
              trace    |-> [steps |-> steps2, embed |-> NoEmbed,
                            log |-> Append(log2, "Error processing webhook")],
              submit   |-> <<>>]
        ELSE hand_off(handled.embed, steps2, log2, bot, bot_loop)

Rejected(status, body, steps, log) ==
    [response |-> Response(status, body),
     trace    |-> [steps |-> steps, embed |-> NoEmbed, log |-> log],
     submit   |-> <<>>]

\* lines 83-87: request.json and the `not payload` test
get_payload(req, steps, log, bot, bot_loop, raises415) ==
    LET steps2 == steps \cup {"parse"}
        parsed == json_loads(req.data)
    IN  IF req.content_type # "application/json"
        THEN IF raises415
             THEN Rejected(415, Html("Unsupported Media Type"), steps2, log)
             ELSE Rejected(400, Json([error |-> "No payload"]), steps2,
                           Append(log, "No payload in webhook request"))
        ELSE IF parsed.raised
        THEN Rejected(400, Html("Bad Request"), steps2, log)
        ELSE IF not_payload(parsed.value)
        THEN Rejected(400, Json([error |-> "No payload"]), steps2,
                      Append(log, "No payload in webhook request"))
        ELSE process_event(req.event_type.name, parsed.value, steps2, log,
                           bot, bot_loop)

webhook(req, key, bot, bot_loop, raises415) ==
    LET verified == verify_signature(request_data(req), req.signature, key)
        steps    == {"verify"} \cup (IF verified.hashed THEN {"hmac"} ELSE {})
    IN  IF verified.raised
        THEN Rejected(500, Html("Internal Server Error"), steps, verified.log)
        ELSE IF ~verified.value
        THEN Rejected(401, Json([error |-> "Invalid signature"]), steps,
                      Append(verified.log,
                             "Webhook signature verification failed"))
        ELSE IF ~req.event_type.present \/ req.event_type.name = ""
        THEN Rejected(400, Json([error |-> "No event type"]),
                      steps \cup {"event_type"},
                      <<"No event type in webhook request">>)
        ELSE get_payload(req, steps \cup {"event_type"}, <<>>, bot, bot_loop,
                         raises415)

(***************************************************************************)
(* What the hosting platform sends for a body: 'sha256=' and the lowercase  *)
(* hex HMAC-SHA256 of the raw bytes under the shared secret.                *)
(***************************************************************************)
sign(data, key) == SHA256_PREFIX \o hexdigest(hmac_new(key, data))

Secrets == {<<11, 22>>, <<11, 23>>}

EventTypes ==
    {"push", "pull_request", "pull_request_review",
     "pull_request_review_comment", "issues", "create", "delete"}

WebhookRequest(signature, event_type, content_type, data) ==
    [route        |-> "webhook",
     signature    |-> signature,
     event_type   |-> event_type,
     content_type |-> content_type,
     data         |-> data]

HealthRequest ==
    [route        |-> "health",
     signature    |-> NoSignature,
     event_type   |-> NoEvent,
     content_type |-> "application/json",
     data         |-> <<>>]

(***************************************************************************)
(* Actions.                                                                 *)
(***************************************************************************)
\* The required environment variables (config.py lines 52-59).  os.getenv
\* gives None for an unset variable; `not value` is true of None and of the
\* empty string: both are "absent" here.  A "malformed" value is set but is
\* not what its use needs: a token the platform refuses, an id that is not a
\* number, a repository name without a '/'.
Required ==
    {"DISCORD_BOT_TOKEN", "DISCORD_GUILD_ID", "DISCORD_CHANNEL_ID",
     "GITHUB_TOKEN", "GITHUB_REPO", "GITHUB_WEBHOOK_SECRET"}

Settings(name) ==
    IF name = "GITHUB_WEBHOOK_SECRET" THEN {"absent", "valid"}
    ELSE {"absent", "malformed", "valid"}

Configs == {cfg \in [Required -> {"absent", "malformed", "valid"}] :
               \A name \in Required : cfg[name] \in Settings(name)}

ValidConfig == [name \in Required |-> "valid"]

\* Config.validate (config.py lines 44-74)
validate(cfg) ==
    /\ \A name \in Required : cfg[name] # "absent"
    /\ cfg["GITHUB_REPO"] # "malformed"

\* GitHubAPI.__init__: Github(token).get_repo(repo_name) asks the platform
\* for the repository and raises when the name is None or unknown or the
\* token is refused; without a token it succeeds for a public repository
GitHubAPI_init_raises(cfg, public) ==
    \/ cfg["GITHUB_REPO"] # "valid"
    \/ cfg["GITHUB_TOKEN"] = "malformed"
    \/ cfg["GITHUB_TOKEN"] = "absent" /\ ~public

\* GitHubBot.__init__ (bot.py lines 25-37), run by `bot = GitHubBot()` when
\* bot.py is imported: int(Config.DISCORD_CHANNEL_ID) raises on None and on
\* text that is not a number
GitHubBot_init_raises(cfg, public) ==
    \/ GitHubAPI_init_raises(cfg, public)
    \/ cfg["DISCORD_CHANNEL_ID"] # "valid"

NoInteraction ==
    [command |-> "none", api |-> "none", replies |-> <<>>, escaped |-> FALSE]

InitWith(keys, configs) ==
    /\ config \in configs
    /\ phase = "import"
    /\ interaction = NoInteraction
    /\ secret \in keys
    /\ process \in {"main", "webhook_server"}
    /\ server = "stopped"
    /\ discord_bot = "None"
    /\ loop = "sentinel"
    /\ notification_channel = "None"
    /\ pending = <<>>
    /\ sends = <<>>
    /\ serial = 0
    /\ request = NoRequest
    /\ response = NoResponse
    /\ trace = NoTrace

Init == InitWith({<<11, 22>>}, {ValidConfig})

\* the imports at the top of the script run: main.py imports bot.py, which
\* constructs the bot; webhook_server.py imports neither
import_modules ==
    /\ phase = "import"
    /\ \E public \in BOOLEAN :
          phase' = IF process = "main" /\ GitHubBot_init_raises(config, public)
                   THEN "crashed"
                   ELSE "validate"
    /\ UNCHANGED <<config, interaction, secret, process, server, discord_bot,
                   loop, notification_channel, pending, sends, serial,
                   request, response, trace>>

\* main.py main(), lines 29-38: exit unless the configuration validates,
\* then start the Flask thread
main ==
    /\ process = "main"
    /\ phase = "validate"
    /\ phase' = IF validate(config) THEN "run" ELSE "exited"
    /\ UNCHANGED <<config, interaction, secret, process, server, discord_bot,
                   loop, notification_channel, pending, sends, serial,
                   request, response, trace>>

\* webhook_server.py run as a script, lines 309-313
webhook_server_main ==
    /\ process = "webhook_server"
    /\ phase = "validate"
    /\ phase' = IF validate(config) THEN "run" ELSE "exited"
    /\ UNCHANGED <<config, interaction, secret, process, server, discord_bot,
                   loop, notification_channel, pending, sends, serial,
                   request, response, trace>>

\* run_webhook_server serving without the assignment to discord_bot
run_webhook_server_unattached ==
    /\ process = "main"
    /\ phase = "run"
    /\ server = "stopped"
    /\ server' = "serving"
    /\ UNCHANGED <<config, phase, interaction,
                   secret, process, discord_bot, loop, notification_channel,
                   pending, sends, serial, request, response, trace>>

\* main.py: the Flask thread runs run_webhook_server(bot)
run_webhook_server ==
    /\ process = "main"
    /\ phase = "run"
    /\ server = "stopped"
    /\ discord_bot' = "bot"
    /\ server' = "serving"
    /\ UNCHANGED <<config, phase, interaction,
                   secret, process, loop, notification_channel, pending,
                   sends, serial, request, response, trace>>

\* webhook_server.py run as a script: the app without a bot
run_standalone ==
    /\ process = "webhook_server"
    /\ phase = "run"
    /\ server = "stopped"
    /\ server' = "serving"
    /\ UNCHANGED <<config, phase, interaction,
                   secret, process, discord_bot, loop, notification_channel,
                   pending, sends, serial, request, response, trace>>

\* main.py lines 41-49: bot.start(token) binds the bot to the running loop
\* and logs in; when the platform refuses the token the login raises, and
\* main closes the bot and exits, which ends the Flask thread (a daemon)
bot_start ==
    /\ process = "main"
    /\ phase = "run"
    /\ loop = "sentinel"
    /\ IF config["DISCORD_BOT_TOKEN"] = "valid"
       THEN /\ loop' = "running"
            /\ UNCHANGED <<phase, server>>
       ELSE /\ loop' = "closed"
            /\ phase' = "exited"
            /\ server' = "stopped"
    /\ UNCHANGED <<config, interaction, secret, process, discord_bot,
                   notification_channel, pending, sends, serial, request,
                   response, trace>>

\* GitHubBot.on_ready: get_channel finds the channel or gives None
on_ready ==
    /\ loop = "running"
    /\ \E found \in {"channel", "None"} : notification_channel' = found
    /\ UNCHANGED <<config, phase, interaction,
                   secret, process, server, discord_bot, loop, pending,
                   sends, serial, request, response, trace>>

\* what awaiting notification_channel.send can come to: the message is
\* sent or the call raises; without a channel there is no call
channel_send(channel) ==
    IF channel = "None" THEN {"no_channel"} ELSE {"sent", "failed"}

\* one run of send_notification for a submitted coroutine, with its log line
Run(coroutine, outcome) ==
    [id      |-> coroutine.id,
     embed   |-> coroutine.embed,
     outcome |-> outcome,
     log     |-> CASE outcome = "sent"   -> "Notification sent successfully"
                   [] outcome = "failed" -> "Failed to send notification"
                   [] OTHER              -> "Notification channel not set"]

\* send_notification sending again after a send that raised
send_notification_retry ==
    /\ loop = "running"
    /\ pending # <<>>
    /\ \E outcome \in channel_send(notification_channel) :
          /\ sends' = Append(sends, Run(Head(pending), outcome))
          /\ pending' = IF outcome = "failed" THEN pending ELSE Tail(pending)
    /\ UNCHANGED <<config, phase, interaction,
                   secret, process, server, discord_bot, loop,
                   notification_channel, serial, request, response, trace>>

\* send_notification with a send that raised surfacing in the response of
\* the request in hand
send_notification_reports ==
    /\ loop = "running"
    /\ pending # <<>>
    /\ pending' = Tail(pending)
    /\ \E outcome \in channel_send(notification_channel) :
          /\ sends' = Append(sends, Run(Head(pending), outcome))
          /\ response' =
                IF outcome = "failed" /\ request.route = "webhook"
                THEN Response(500, Json([error |-> "Internal server error"]))
                ELSE response
    /\ UNCHANGED <<config, phase, interaction,
                   secret, process, server, discord_bot, loop,
                   notification_channel, serial, request, trace>>

\* GitHubBot.send_notification, run by the bot's loop for the oldest
\* submitted coroutine
send_notification ==
    /\ loop = "running"
    /\ pending # <<>>
    /\ pending' = Tail(pending)
    /\ \E outcome \in channel_send(notification_channel) :
          sends' = Append(sends, Run(Head(pending), outcome))
    /\ UNCHANGED <<config, phase, interaction,
                   secret, process, server, discord_bot, loop,
                   notification_channel, serial, request, response, trace>>

\* discord_bot.send_notification(embed): the coroutine objects created for
\* the embeds handed off by the request numbered `id`
Coroutines(submit, id) ==
    [i \in 1..Len(submit) |-> [id |-> id, embed |-> submit[i]]]

\* an equal embed was handed off before
Duplicate(embed) ==
    \/ \E i \in 1..Len(pending) : pending[i].embed = embed
    \/ \E i \in 1..Len(sends) : sends[i].embed = embed

\* handle_webhook dropping a notification equal to an earlier one
handle_webhook_dedup(req) ==
    /\ server = "serving"
    /\ Len(pending) < MaxPending
    /\ \E raises415 \in IF req.content_type = "application/json"
                         THEN {TRUE} ELSE BOOLEAN :
          \E done \in {webhook(req, secret, discord_bot, loop, raises415)} :
              /\ request' = req
              /\ response' = done.response
              /\ trace' = done.trace
              /\ pending' = IF done.submit # <<>> /\ Duplicate(done.submit[1])
                            THEN pending
                            ELSE pending \o Coroutines(done.submit, serial + 1)
    /\ serial' = serial + 1
    /\ UNCHANGED <<config, phase, interaction,
                   secret, process, server, discord_bot, loop,
                   notification_channel, sends>>

handle_webhook(req) ==
    /\ server = "serving"
    /\ Len(pending) < MaxPending
    /\ \E raises415 \in IF req.content_type = "application/json"
                         THEN {TRUE} ELSE BOOLEAN :
          \E done \in {webhook(req, secret, discord_bot, loop, raises415)} :
              /\ request' = req
              /\ response' = done.response
              /\ trace' = done.trace
              /\ pending' = pending \o Coroutines(done.submit, serial + 1)
    /\ serial' = serial + 1
    /\ UNCHANGED <<config, phase, interaction,
                   secret, process, server, discord_bot, loop,
                   notification_channel, sends>>

health_check ==
    /\ server = "serving"
    /\ request' = HealthRequest
    /\ response' = Response(200, Json([status  |-> "ok",
                                        message |-> "Webhook server is running"]))
    /\ trace' = NoTrace
    /\ UNCHANGED <<config, phase, interaction,
                   secret, process, server, discord_bot, loop,
                   notification_channel, pending, sends, serial>>

\* the response held back until the bot's loop has run what was handed off
respond_after_send ==
    /\ request # NoRequest
    /\ pending = <<>>
    /\ request' = NoRequest
    /\ response' = NoResponse
    /\ trace' = NoTrace
    /\ UNCHANGED <<config, phase, interaction,
                   secret, process, server, discord_bot, loop,
                   notification_channel, pending, sends, serial>>

\* Flask writes the response and pops the request context
respond ==
    /\ request # NoRequest
    /\ request' = NoRequest
    /\ response' = NoResponse
    /\ trace' = NoTrace
    /\ UNCHANGED <<config, phase, interaction,
                   secret, process, server, discord_bot, loop,
                   notification_channel, pending, sends, serial>>

(***************************************************************************)
(* Requests of the classification runs: every event header with every       *)
(* document, correctly signed, and some that fail authentication.           *)
(***************************************************************************)
EventHeaders ==
    {Event(e) : e \in EventTypes \cup {"ping", ""}} \cup {NoEvent}

Bodies == {Body(d, 0) : d \in 0..Len(Documents)}

SignedRequestsFor ==
    [key \in Secrets |->
        {WebhookRequest(Signature(sign(b, key)), e, "application/json", b) :
            e \in EventHeaders, b \in Bodies}]

SignedRequests == SignedRequestsFor[secret]

UnsignedRequests ==
    {WebhookRequest(NoSignature, Event(e), "application/json", Body(d, 0)) :
        e \in {"push", "issues"}, d \in {2, 18}}

\* correctly signed requests sent without a JSON content type
UntypedRequestsFor ==
    [key \in Secrets |->
        {WebhookRequest(Signature(sign(Body(d, 0), key)), Event(e), "text/plain",
                        Body(d, 0)) :
            e \in {"push", "issues"}, d \in {0, 2}}]

Requests == SignedRequests \cup UnsignedRequests \cup UntypedRequestsFor[secret]

\* Requests are taken one at a time: the next one once the last is
\* answered.  handle_webhook reads nothing of the request before it.
Receive ==
    /\ request = NoRequest
    /\ serial < MaxDistinct
    /\ \E req \in Requests : handle_webhook(req)

\* The hosting platform delivers the request in hand once more, unchanged.
Replay ==
    /\ request.route = "webhook"
    /\ serial < MaxRequests
    /\ handle_webhook(request)

Health ==
    /\ request = NoRequest
    /\ health_check

Next ==
    \/ import_modules
    \/ main
    \/ webhook_server_main
    \/ run_webhook_server
    \/ run_standalone
    \/ bot_start
    \/ on_ready
    \/ send_notification
    \/ Receive
    \/ Replay
    \/ Health
    \/ respond

Spec == Init /\ [][Next]_vars

(***************************************************************************)
(* Requests of the authentication runs: for each body, the signature        *)
(* headers a sender may attach.                                             *)
(***************************************************************************)
AuthBodies == {Body(2, 0), Body(2, 1), Body(18, 0), Body(0, 0)}

SHA1_PREFIX == <<"s", "h", "a", "1", "=">>

SignatureHeaders(data, key) ==
    {NoSignature,
     Signature(<<>>),
     Signature(sign(data, key)),
     Signature(hexdigest(hmac_new(key, data))),
     Signature(SHA1_PREFIX \o hexdigest(hmac_new(key, data))),
     Signature(sign(data, key) \o <<"=", "x">>),
     Signature(SHA256_PREFIX),
     Signature(SHA256_PREFIX \o <<"U+00E9">>)}
    \cup {Signature(sign(other, key)) : other \in AuthBodies \ {data}}
    \cup {Signature(sign(data, other)) : other \in Secrets \ {key}}

AuthRequestsFor ==
    [key \in Secrets |->
        UNION {{WebhookRequest(sig, e, "application/json", b) :
                    sig \in SignatureHeaders(b, key),
                    e \in {Event("push"), Event("issues"), NoEvent}} :
               b \in AuthBodies}]

ReceiveAuth ==
    /\ request = NoRequest
    /\ serial < MaxRequests
    /\ \E req \in AuthRequestsFor[secret] : handle_webhook(req)

InitAuth == InitWith(Secrets, {ValidConfig})

NextAuth ==
    \/ import_modules
    \/ main
    \/ webhook_server_main
    \/ run_webhook_server
    \/ run_standalone
    \/ bot_start
    \/ on_ready
    \/ send_notification
    \/ ReceiveAuth
    \/ Replay
    \/ Health
    \/ respond

SpecAuth == InitAuth /\ [][NextAuth]_vars

(***************************************************************************)
(* Requests of the relay runs: a few events, with and without a             *)
(* notification, arriving in any order and number while the chat client     *)
(* starts, connects and sends.                                              *)
(***************************************************************************)
RelayRequestsFor ==
    [key \in Secrets |->
        {WebhookRequest(Signature(sign(Body(d, 0), key)), Event(e),
                        "application/json", Body(d, 0)) :
            e \in {"push", "issues"}, d \in {2, 3, 18, 21}}]

ReceiveRelay ==
    /\ request = NoRequest
    /\ serial < MaxRequests
    /\ \E req \in RelayRequestsFor[secret] : handle_webhook(req)

NextRelay ==
    \/ import_modules
    \/ main
    \/ webhook_server_main
    \/ run_webhook_server
    \/ run_standalone
    \/ bot_start
    \/ on_ready
    \/ send_notification
    \/ ReceiveRelay
    \/ Replay
    \/ Health
    \/ respond

SpecRelay == Init /\ [][NextRelay]_vars

(***************************************************************************)
(* The slash commands of bot.py.  A call of the hosting platform's API      *)
(* gives a result ("ok"), gives an empty list ("empty"), is refused with    *)
(* an HTTP error that PyGithub raises as GithubException (a missing pull    *)
(* request or branch, a rate limit, a server error), or fails below         *)
(* PyGithub (the connection), which raises another exception.               *)
(***************************************************************************)
ApiFailures  == {"GithubException", "ConnectionError"}

\* a call that lists items, and a call that fetches one object
ListOutcomes == {"ok", "empty"} \cup ApiFailures
ItemOutcomes == {"ok"} \cup ApiFailures

ApiRaised   == [raised |-> TRUE, value |-> "None"]
ApiValue(v) == [raised |-> FALSE, value |-> v]

\* the wrappers of github_api.py: GithubException is caught and an empty
\* value returned; any other exception leaves the wrapper
get_open_pull_requests(api) ==
    CASE api = "ConnectionError" -> ApiRaised
      [] api = "GithubException" -> ApiValue("empty")
      [] OTHER                   -> ApiValue(api)

get_pull_request(api) ==
    CASE api = "ConnectionError" -> ApiRaised
      [] api = "GithubException" -> ApiValue("empty")
      [] OTHER                   -> ApiValue("ok")

get_commits(api) ==
    CASE api = "ConnectionError" -> ApiRaised
      [] api = "GithubException" -> ApiValue("empty")
      [] OTHER                   -> ApiValue(api)

get_branches(api) ==
    CASE api = "ConnectionError" -> ApiRaised
      [] api = "GithubException" -> ApiValue("empty")
      [] OTHER                   -> ApiValue(api)

get_repository_status(api) ==
    CASE api = "ConnectionError" -> ApiRaised
      [] api = "GithubException" -> ApiValue("empty")
      [] OTHER                   -> ApiValue("ok")

\* what the user is sent: an embed with the result, an embed or a text that
\* says there is nothing, or the text of the except branch
Reply(kind, ephemeral) == [kind |-> kind, ephemeral |-> ephemeral]

\* the text of every except branch ends with "Please try again later."
ErrorReply == Reply("An error occurred. Please try again later.", TRUE)

\* the outcome of a command: the replies sent and whether an exception left
\* the handler
Outcome_of(command, api, replies, escaped) ==
    [command |-> command, api |-> api, replies |-> replies,
     escaped |-> escaped]

\* bot.py lines 90-110
list_prs(api) ==
    LET prs == get_open_pull_requests(api)
    IN  Outcome_of("prs", api,
                   IF prs.raised THEN <<ErrorReply>>
                   ELSE IF prs.value = "empty"
                   THEN <<Reply("No open pull requests found.", FALSE)>>
                   ELSE <<Reply("Open Pull Requests", FALSE)>>,
                   FALSE)

\* bot.py lines 113-141
get_pr(api) ==
    LET pr == get_pull_request(api)
    IN  Outcome_of("pr", api,
                   IF pr.raised THEN <<ErrorReply>>
                   ELSE IF pr.value = "empty"
                   THEN <<Reply("Pull request not found.", TRUE)>>
                   ELSE <<Reply("PR detail", FALSE)>>,
                   FALSE)

\* bot.py lines 144-172
get_commits_command(api) ==
    LET commits == get_commits(api)
    IN  Outcome_of("commits", api,
                   IF commits.raised THEN <<ErrorReply>>
                   ELSE IF commits.value = "empty"
                   THEN <<Reply("No commits found for branch", TRUE)>>
                   ELSE <<Reply("Recent Commits", FALSE)>>,
                   FALSE)

\* bot.py lines 175-195
list_branches(api) ==
    LET branches == get_branches(api)
    IN  Outcome_of("branches", api,
                   IF branches.raised THEN <<ErrorReply>>
                   ELSE IF branches.value = "empty"
                   THEN <<Reply("No branches found.", FALSE)>>
                   ELSE <<Reply("Active Branches", FALSE)>>,
                   FALSE)

\* bot.py lines 198-224: an empty status is answered with an error text
get_status(api) ==
    LET status == get_repository_status(api)
    IN  Outcome_of("status", api,
                   IF status.raised THEN <<ErrorReply>>
                   ELSE IF status.value = "empty"
                   THEN <<Reply("An error occurred while fetching repository status.", TRUE)>>
                   ELSE <<Reply("Repository Status", FALSE)>>,
                   FALSE)

\* bot.py lines 227-273.  The command does not defer: when the API call
\* outlasts the time the chat platform allows for a first response
\* (`expired`), interaction.response.send_message raises, in the try block
\* and again in the except block.
assign_reviewer(api, expired) ==
    LET pr == get_pull_request(api)
    IN  IF expired THEN Outcome_of("assign", api, <<>>, TRUE)
        ELSE Outcome_of("assign", api,
                        IF pr.raised THEN <<ErrorReply>>
                        ELSE IF pr.value = "empty"
                        THEN <<Reply("Pull request not found.", TRUE)>>
                        ELSE <<Reply("Review Request", FALSE)>>,
                        FALSE)

\* the interaction is answered; nothing else of the process changes
command(outcome) ==
    /\ interaction' = outcome
    /\ UNCHANGED <<config, phase, secret, process, server, discord_bot, loop,
                   notification_channel, pending, sends, serial, request,
                   response, trace>>

\* the connected bot's loop runs one command handler to its end
slash_prs ==
    /\ loop = "running"
    /\ \E api \in ListOutcomes : command(list_prs(api))

slash_pr ==
    /\ loop = "running"
    /\ \E api \in ItemOutcomes : command(get_pr(api))

slash_commits ==
    /\ loop = "running"
    /\ \E api \in ListOutcomes : command(get_commits_command(api))

slash_branches ==
    /\ loop = "running"
    /\ \E api \in ListOutcomes : command(list_branches(api))

slash_status ==
    /\ loop = "running"
    /\ \E api \in ItemOutcomes : command(get_status(api))

slash_assign ==
    /\ loop = "running"
    /\ \E api \in ItemOutcomes, expired \in BOOLEAN :
           command(assign_reviewer(api, expired))

NextCommands ==
    \/ NextRelay
    \/ slash_prs
    \/ slash_pr
    \/ slash_commits
    \/ slash_branches
    \/ slash_status
    \/ slash_assign

SpecCommands == Init /\ [][NextCommands]_vars

(***************************************************************************)
(* Start-up runs: the process started with any configuration, then the      *)
(* requests of the relay runs.                                              *)
(***************************************************************************)
InitStart == InitWith({<<11, 22>>}, Configs)

SpecStart == InitStart /\ [][NextRelay]_vars

\* the digest separates the bodies and secrets of the runs
NoCollision ==
    \A k1, k2 \in Secrets :
        \A b1, b2 \in Bodies \cup AuthBodies :
            hmac_new(k1, b1) = hmac_new(k2, b2) => k1 = k2 /\ b1 = b2

(***************************************************************************)
(* Properties.  A webhook request is in hand between handle_webhook and     *)
(* respond; `request`, `response` and `trace` then describe it.             *)
(***************************************************************************)
Handled == request.route = "webhook"

\* the request carries the signature the hosting platform computes for its
\* raw body under the configured secret
Authentic == request.signature = Signature(sign(request.data, secret))

\* verify_signature returned True: handling went on to the event header
Accepted == "event_type" \in trace.steps

InvalidSignature401 ==
    response = Response(401, Json([error |-> "Invalid signature"]))

\* C1: every webhook request whose signature header is absent, malformed or
\* not the signature of its body is answered 401 {"error": "Invalid
\* signature"}, and nothing beyond the signature check is done for it: no
\* event-type check, no payload parsing, no classification, no hand-off.
C1_BadSignatureAnswered401 ==
    (Handled /\ ~Authentic) =>
        /\ InvalidSignature401
        /\ trace.steps \cap {"event_type", "parse", "classify", "submit"} = {}

\* C2: verify_signature accepts, for every body and secret, the signature
\* 'sha256=' + hex(HMAC-SHA256(secret, body)) of the raw bytes received, and
\* rejects for a body the signature computed for any other body under the
\* same secret (also one that parses to the same document).
C2_SignatureOfRawBody ==
    Handled =>
        /\ Authentic => Accepted
        /\ \A other \in AuthBodies \ {request.data} :
              request.signature = Signature(sign(other, secret)) =>
                  InvalidSignature401 /\ ~Accepted

C2_Witness ==
    /\ Handled
    /\ request.data = Body(2, 1)
    /\ Authentic
    /\ Accepted

\* C3: a signature that is absent or does not start with 'sha256=' is
\* rejected, by a return that precedes the computation of any HMAC.
C3_NoPrefixRejectedBeforeHashing ==
    (Handled /\ (~request.signature.present
                   \/ ~startswith(request.signature.text, SHA256_PREFIX))) =>
        /\ InvalidSignature401
        /\ "hmac" \notin trace.steps
        /\ ~Accepted

C3_Witness ==
    /\ Handled
    /\ request.signature.present
    /\ startswith(request.signature.text, SHA1_PREFIX)
    /\ InvalidSignature401
    /\ "hmac" \notin trace.steps

(***************************************************************************)
(* Classification (section 4.2 of the specification).                       *)
(***************************************************************************)
\* the document the request's body spells, when it spells one
Parsed  == ~json_loads(request.data).raised
Payload == json_loads(request.data).value

\* an authenticated webhook request with the event header `e`
AuthenticatedEvent(e) ==
    Handled /\ Authentic /\ request.event_type = Event(e)

\* ... that also carries a payload: a non-empty JSON document, sent as JSON
EventWithPayload(e) ==
    /\ AuthenticatedEvent(e)
    /\ request.content_type = "application/json"
    /\ Parsed
    /\ ~not_payload(Payload)

ActionIn(actions) ==
    subscriptable(Payload, <<"action">>) /\ Payload.fields.action \in actions

RefTypeIs(ref_type) ==
    subscriptable(Payload, <<"ref_type">>)
    /\ Payload.fields.ref_type = ref_type

HasCommits ==
    subscriptable(Payload, <<"commits">>) /\ Payload.fields.commits # <<>>

\* a notification was produced for the request in hand
Notified == trace.embed.present

Success == response = Response(200, Json([status |-> "success"]))

\* The members of the hosting platform's payload that the notification of
\* an event type shows.  A payload missing one is malformed (section 7 (c)).
Members(e) ==
    CASE e = "push" ->
            {<<"ref">>, <<"commits">>, <<"pusher", "name">>,
             <<"repository", "name">>, <<"compare">>}
      [] e = "pull_request" ->
            {<<"action">>, <<"pull_request", "number">>,
             <<"pull_request", "title">>, <<"pull_request", "user", "login">>,
             <<"pull_request", "head", "ref">>,
             <<"pull_request", "base", "ref">>, <<"pull_request", "html_url">>}
      [] e = "pull_request_review" ->
            {<<"action">>, <<"review", "user", "login">>, <<"review", "state">>,
             <<"review", "body">>, <<"review", "html_url">>,
             <<"pull_request", "number">>, <<"pull_request", "title">>}
      [] e = "issues" ->
            {<<"action">>, <<"issue", "number">>, <<"issue", "title">>,
             <<"issue", "user", "login">>, <<"issue", "html_url">>}
      [] e \in {"create", "delete"} ->
            {<<"ref_type">>, <<"sender", "login">>}
      [] OTHER -> {}

WellFormed(e) ==
    /\ request.content_type = "application/json"
    /\ Parsed
    /\ \A path \in Members(e) : subscriptable(Payload, path)
    /\ (e = "push" /\ HasCommits) =>
          /\ HasPath(Payload.fields.commits[1], <<"message">>)
          /\ HasPath(Payload.fields.commits[1], <<"author", "name">>)
          /\ HasPath(Payload.fields.commits[1], <<"url">>)

\* C4: for an authenticated pull_request or issues event, a notification is
\* produced only if the payload's action is opened, closed or reopened, and
\* it is produced for each of these actions when the payload carries the
\* members of the event; every other action produces none.
C4_ActionSelectsNotification ==
    \A e \in {"pull_request", "issues"} :
        AuthenticatedEvent(e) =>
            /\ Notified => ActionIn({"opened", "closed", "reopened"})
            /\ (ActionIn({"opened", "closed", "reopened"}) /\ WellFormed(e))
                   => /\ Notified
                      /\ trace.embed.kind =
                            (IF e = "issues" THEN "issue" ELSE "pull_request")

C4_Witness ==
    /\ AuthenticatedEvent("pull_request")
    /\ ActionIn({"closed"})
    /\ Notified

\* C5: for an authenticated push event, a commit notification is produced
\* only if the payload has at least one commit entry, and it is produced
\* whenever it has one (and carries the members of a push); zero commits
\* produce none.
C5_CommitsSelectNotification ==
    AuthenticatedEvent("push") =>
        /\ Notified => HasCommits
        /\ (HasCommits /\ WellFormed("push"))
               => Notified /\ trace.embed.kind = "commit"

C5_Witness ==
    /\ AuthenticatedEvent("push")
    /\ HasCommits
    /\ Len(Payload.fields.commits) = 2
    /\ Notified

\* C6: for an authenticated create (delete) event, a "branch created"
\* ("branch deleted") notification is produced only if ref_type is branch,
\* and it is produced whenever it is (and the payload carries the members of
\* the event); a tag or any other ref_type produces none.
C6_BranchRefSelectsNotification ==
    \A e \in {"create", "delete"} :
        AuthenticatedEvent(e) =>
            /\ Notified => RefTypeIs("branch")
            /\ (RefTypeIs("branch") /\ WellFormed(e))
                   => /\ Notified
                      /\ trace.embed.kind = "branch"
                      /\ trace.embed.title =
                            [text   |-> "Branch",
                             action |-> IF e = "create" THEN "Created"
                                        ELSE "Deleted"]

C6_Witness ==
    /\ AuthenticatedEvent("delete")
    /\ RefTypeIs("branch")
    /\ Notified
    /\ trace.embed.title.action = "Deleted"

\* C7: for an authenticated pull_request_review event, a review notification
\* is produced only if the action is submitted, and it is produced whenever
\* it is (and the payload carries the members of a review); any other
\* action produces none.
C7_SubmittedSelectsNotification ==
    AuthenticatedEvent("pull_request_review") =>
        /\ Notified => ActionIn({"submitted"})
        /\ (ActionIn({"submitted"}) /\ WellFormed("pull_request_review"))
               => Notified /\ trace.embed.kind = "review"

C7_Witness ==
    /\ AuthenticatedEvent("pull_request_review")
    /\ ActionIn({"submitted"})
    /\ Notified

\* C8: a pull_request_review_comment event never produces a notification,
\* whatever its payload, and nothing is handed to the chat client for it.
C8_ReviewCommentNeverNotifies ==
    (Handled /\ request.event_type = Event("pull_request_review_comment")) =>
        /\ ~Notified
        /\ "submit" \notin trace.steps

C8_Witness ==
    /\ AuthenticatedEvent("pull_request_review_comment")
    /\ ActionIn({"created"})
    /\ ~Notified
    /\ Success

\* C9: an authenticated request that carries a payload and whose event type
\* is none of the seven handled ones yields no notification and an
\* 'unhandled' log entry, and is answered success, never an error.
C9_UnlistedEventIgnored ==
    \A e \in {h.name : h \in EventHeaders} \ (EventTypes \cup {""}) :
        EventWithPayload(e) =>
            /\ ~Notified
            /\ \E i \in 1..Len(trace.log) : trace.log[i] = "Unhandled event type"
            /\ Success

C9_Witness ==
    /\ EventWithPayload("ping")
    /\ ~Notified
    /\ Success

\* what classification came to for the request in hand
Outcome ==
    IF Notified THEN "notification"
    ELSE IF Success THEN "nothing"
    ELSE "error"

\* the condition of the table of section 4.2 under which an event notifies
Selected(e) ==
    CASE e = "push"                 -> HasCommits
      [] e = "pull_request"         -> ActionIn({"opened", "closed", "reopened"})
      [] e = "pull_request_review"  -> ActionIn({"submitted"})
      [] e = "issues"               -> ActionIn({"opened", "closed", "reopened"})
      [] e \in {"create", "delete"} -> RefTypeIs("branch")
      [] OTHER                      -> FALSE

\* the handler of `e` reads the action with a subscript
ActionKeyed(e) ==
    e \in {"pull_request", "pull_request_review",
           "pull_request_review_comment", "issues"}

\* the payload carries the members of the event, the action left aside
WellFormedButAction(e) ==
    /\ Payload.kind = "object"
    /\ \A path \in Members(e) \ {<<"action">>} : subscriptable(Payload, path)
    /\ (e = "push" /\ HasCommits) => WellFormed(e)

\* the outcome section 4.2 and section 7 (c) give a (type, payload) pair
Expected(e) ==
    IF e \in EventTypes /\ Payload.kind # "object" THEN "error"
    ELSE IF ActionKeyed(e) /\ ~subscriptable(Payload, <<"action">>)
    THEN "error"
    ELSE IF ~Selected(e) THEN "nothing"
    ELSE IF WellFormed(e) THEN "notification"
    ELSE "error"

EventNames == {h.name : h \in EventHeaders} \ {""}

\* C10, as stated: every event type and every action value, an absent
\* action included, is classified as 'produce a notification' or 'produce
\* nothing' (here for payloads that lack at most the action).
C10_EveryPairNotifiesOrIgnores ==
    \A e \in EventNames :
        (EventWithPayload(e) /\ WellFormedButAction(e)) =>
            Outcome \in {"notification", "nothing"}

\* C10, amended: classification is a total function of the (type, payload)
\* of the request in hand and of nothing else, with three outcomes: a
\* notification, nothing, or a processing error (answered 500) when the
\* payload lacks a member the event's handler subscripts, such as the
\* action of a pull_request, pull_request_review,
\* pull_request_review_comment or issues event.
C10_ClassificationIsAFunctionOfTheRequest ==
    \A e \in EventNames :
        EventWithPayload(e) =>
            /\ Outcome = Expected(e)
            /\ Outcome = "error" =>
                  response = Response(500, Json([error |-> "Internal server error"]))

C10_Witness ==
    /\ EventWithPayload("pull_request")
    /\ WellFormedButAction("pull_request")
    /\ ~subscriptable(Payload, <<"action">>)
    /\ Outcome = "error"

(***************************************************************************)
(* Responses and the hand-off (sections 4.3, 6 and 7 of the specification). *)
(***************************************************************************)
\* the except branch of handle_webhook was taken for the request in hand
ProcessingError ==
    \E i \in 1..Len(trace.log) : trace.log[i] = "Error processing webhook"

InternalServerError ==
    response = Response(500, Json([error |-> "Internal server error"]))

\* the coroutines, waiting or run, that the request numbered `id` handed off
Waiting(id) == {i \in 1..Len(pending) : pending[i].id = id}
Runs(id)    == {i \in 1..Len(sends) : sends[i].id = id}

\* C11: an authenticated request with an event type and a payload whose
\* processing raised nothing is answered 200 {"status": "success"}, also when
\* no notification is produced; an authenticated issues event with action
\* deleted is answered 200 {"status": "success"}, produces no notification,
\* and nothing is handed to the chat client or sent for it.
C11_ProcessedIsAnsweredSuccess ==
    /\ \A e \in EventNames :
          (EventWithPayload(e) /\ ~ProcessingError) => Success
    /\ (EventWithPayload("issues") /\ ActionIn({"deleted"})) =>
          /\ Success
          /\ ~Notified
          /\ "submit" \notin trace.steps
          /\ Waiting(serial) = {} /\ Runs(serial) = {}

C11_Witness ==
    /\ EventWithPayload("issues")
    /\ ActionIn({"deleted"})
    /\ discord_bot = "bot" /\ loop = "running"
    /\ notification_channel = "channel"
    /\ Success
    /\ ~Notified

\* the payload lacks a member that the notification of `e` needs
Lacking(e) == \E path \in Members(e) : ~subscriptable(Payload, path)

\* C12: an authenticated request of a handled event type whose payload is
\* present but lacks a member the event type requires (action, ref_type,
\* commits, ref, pull_request, issue, sender, ...) is answered 500 {"error":
\* "Internal server error"} and the error is logged; it is never answered
\* 200 as if there were nothing to notify, and the server keeps serving.
C12_MissingMemberAnswered500 ==
    \A e \in EventTypes :
        (EventWithPayload(e) /\ Lacking(e)) =>
            /\ InternalServerError
            /\ ProcessingError
            /\ ~Success
            /\ server = "serving"

\* an authenticated request that carries no event type
WithoutEventType ==
    /\ Handled /\ Authentic
    /\ (~request.event_type.present \/ request.event_type.name = "")

\* an authenticated request with an event type, sent as JSON, whose payload
\* is missing or cannot be parsed: bytes that are not JSON, or an empty
\* document
WithoutPayload ==
    /\ Handled /\ Authentic
    /\ request.event_type.present /\ request.event_type.name # ""
    /\ request.content_type = "application/json"
    /\ (~Parsed \/ not_payload(Payload))

\* C13: an authenticated request without an X-GitHub-Event header is
\* answered 400 {"error": "No event type"}; one with an event type and a
\* missing or unparseable payload is answered 400 {"error": "No payload"};
\* neither is classified or handed to the chat client.
C13_MalformedRequestAnswered400 ==
    /\ WithoutEventType =>
          /\ response = Response(400, Json([error |-> "No event type"]))
          /\ trace.steps \cap {"parse", "classify", "submit"} = {}
    /\ WithoutPayload =>
          /\ response = Response(400, Json([error |-> "No payload"]))
          /\ trace.steps \cap {"classify", "submit"} = {}

\* the request in hand handed a notification to the chat client's loop
Submitted == Handled /\ "submit" \in trace.steps

\* C14: once a notification is submitted to the chat client's loop the
\* response is settled (200 success) and Flask can write it at once: writing
\* it is never held back by the send, whether the send has not started, is
\* under way or is over.
C14_ResponseNeverWaitsForSend ==
    Submitted => Success /\ ENABLED respond

\* the response of the latest request was written while its notification
\* was still waiting for the chat client's loop
C14_Witness ==
    /\ request = NoRequest
    /\ Waiting(serial) # {}
    /\ Runs(serial) = {}

\* C15: a run of send_notification leaves the response of the request in
\* hand as it was and leaves the chat client's loop running, whether the
\* send succeeds or raises; the response of a request whose notification
\* was submitted is 200 {"status": "success"} with either outcome, and a
\* send that raised is logged by send_notification.
C15_SendOutcomeNotReported ==
    /\ [](Submitted => Success)
    /\ [](\A i \in 1..Len(sends) :
             sends[i].outcome = "failed" =>
                 sends[i].log = "Failed to send notification")
    /\ [][sends' # sends =>
             /\ response' = response
             /\ request' = request
             /\ loop' = "running"
             /\ server' = server]_vars

\* the send for the request in hand raised, after an earlier one succeeded,
\* and the response is success
C15_Witness ==
    /\ Submitted
    /\ Success
    /\ \E i \in Runs(serial) : sends[i].outcome = "failed"
    /\ \E j \in 1..Len(sends) : sends[j].outcome = "sent"

\* a step in which a webhook request is handled
Arrival == serial' = serial + 1

\* a line of the log that tells of a notification not delivered
DropLogged(log) ==
    \E i \in 1..Len(log) :
        log[i] \in {"Error processing webhook", "Notification channel not set"}

\* C16: when an event that produces a notification arrives while there is
\* no bot reference, the bot's loop is not running or on_ready has not set
\* the channel, the caller is answered success and the drop is logged; a
\* notification dropped for want of a channel is logged and is neither kept
\* waiting nor run again.
C16_EarlyNotificationDroppedAndLogged ==
    /\ [][(/\ Arrival
           /\ trace'.embed.present
           /\ \/ discord_bot = "None"
              \/ loop = "sentinel"
              \/ notification_channel = "None") =>
             /\ response' = Response(200, Json([status |-> "success"]))
             /\ (discord_bot = "None" \/ loop = "sentinel") =>
                   /\ pending' = pending
                   /\ DropLogged(trace'.log)]_vars
    /\ [](\A i \in 1..Len(sends) :
             sends[i].outcome = "no_channel" =>
                 /\ DropLogged(<<sends[i].log>>)
                 /\ Waiting(sends[i].id) = {}
                 /\ Runs(sends[i].id) = {i})

\* how many coroutines, waiting or run, the request numbered `id` accounts for
Attempts(id) == Cardinality(Waiting(id)) + Cardinality(Runs(id))

\* C17: a webhook request accounts for at most one notification, and a
\* notification for at most one run of send_notification: it waits for the
\* loop or it was run once (sent, failed or without a channel), never both
\* and never twice; the request in hand that submitted one accounts for
\* exactly one, carrying the embed it produced, and one that submitted none
\* accounts for none.
C17_OneNotificationOneAttempt ==
    /\ \A i \in 1..Len(pending) : pending[i].id \in 1..serial
    /\ \A i \in 1..Len(sends) : sends[i].id \in 1..serial
    /\ \A id \in 1..serial : Attempts(id) <= 1
    /\ Submitted =>
          /\ Attempts(serial) = 1
          /\ \A i \in Waiting(serial) : pending[i].embed = trace.embed
          /\ \A i \in Runs(serial) : sends[i].embed = trace.embed
    /\ (Handled /\ ~Submitted) => Attempts(serial) = 0

\* a send failed, a later request's notification was sent, and nothing is
\* left waiting
C17_Witness ==
    /\ Len(sends) = 2
    /\ sends[1].outcome = "failed"
    /\ sends[2].outcome = "sent"
    /\ sends[1].id # sends[2].id
    /\ pending = <<>>

\* C18: when the request in hand is delivered again, it is classified as
\* before (same steps, same embed), and if the chat client is attached and
\* its loop runs, its notification is handed off as a new coroutine of its
\* own, whatever was handed off or sent before.
C18_ReplayHandledAgain ==
    [][(request.route = "webhook" /\ Arrival /\ request' = request) =>
          /\ trace'.embed = trace.embed
          /\ trace'.steps \ {"submit"} = trace.steps \ {"submit"}
          /\ (trace'.embed.present /\ discord_bot = "bot" /\ loop = "running")
                 => "submit" \in trace'.steps
          /\ "submit" \in trace'.steps =>
                 pending' = Append(pending, [id    |-> serial',
                                             embed |-> trace.embed])]_vars

\* the second of two requests with the same notification: the first was
\* run, the second is handed off as well
C18_Witness ==
    /\ Submitted
    /\ serial = 2
    /\ \E i \in Runs(1) : sends[i].embed = trace.embed
    /\ Attempts(2) = 1

(***************************************************************************)
(* Notification content (section 8 of the specification).                   *)
(***************************************************************************)
\* C19: an authenticated pull_request event with action closed produces a
\* notification whether merged is true or false (given the members of the
\* event); with merged true its status is Merged and its colour purple, with
\* merged false its status is Closed and its colour red.
C19_MergedAndClosedDiffer ==
    (/\ EventWithPayload("pull_request")
     /\ ActionIn({"closed"})
     /\ WellFormed("pull_request")) =>
        /\ Notified
        /\ trace.embed.kind = "pull_request"
        /\ IF Payload.fields.pull_request.merged
           THEN /\ trace.embed.fields.Status = "Merged"
                /\ trace.embed.color = COLOR_PURPLE
           ELSE /\ trace.embed.fields.Status = "Closed"
                /\ trace.embed.color = COLOR_RED

C19_Witness ==
    /\ EventWithPayload("pull_request")
    /\ ActionIn({"closed"})
    /\ Payload.fields.pull_request.merged
    /\ Notified
    /\ trace.embed.color = COLOR_PURPLE

\* C20: the notification of an authenticated push with N >= 1 commits has a
\* Commits field equal to N, and shows the first line (at most 100
\* characters) of the message of the first commit of the list.
C20_CountAndFirstCommit ==
    (AuthenticatedEvent("push") /\ Notified) =>
        /\ HasCommits
        /\ trace.embed.kind = "commit"
        /\ trace.embed.fields.Commits = Len(Payload.fields.commits)
        /\ trace.embed.description =
               [bold |-> first100(Payload.fields.commits[1].message[1])]

C20_Witness ==
    /\ AuthenticatedEvent("push")
    /\ Notified
    /\ Len(Payload.fields.commits) = 3
    /\ trace.embed.fields.Commits = 3
    /\ trace.embed.description = [bold |-> "First"]

(***************************************************************************)
(* The signature string and the process-wide references.                    *)
(***************************************************************************)
\* C23: verify_signature returns True only for the string 'sha256=' followed
\* by the lowercase hex digest of the body and nothing else: a request goes
\* past the signature check only if its header is exactly that string.
C23_OnlyTheExactSignatureAccepted ==
    (Handled /\ Accepted) => Authentic


\* a required configuration value is absent or malformed
Faulty == \E name \in Required : config[name] # "valid"

\* the Flask thread was started (main.py line 37) or app.run was reached
ServerStarted == phase = "run" \/ server = "serving"

\* bot.start bound the bot to the loop
BotStarted == loop # "sentinel"

\* C22: with a required configuration value (bot token, guild id, channel
\* id, hosting-platform token, repository, webhook secret) absent or
\* malformed, the process does not start: the webhook server thread is never
\* started and the bot is never started.
C22_FaultyConfigNeverStarts ==
    Faulty => ~ServerStarted /\ ~BotStarted


\* a step that writes webhook_server.discord_bot
Written == discord_bot' # discord_bot

\* C24: the chat client reference is written by run_webhook_server alone,
\* once, from None to the bot and before the server accepts requests; no
\* webhook request, health check, send or bot callback changes it; in the
\* combined process the server never serves, and no request is handled,
\* without it.
C24_BotReferenceWrittenOnce ==
    /\ [][Written =>
             /\ process = "main"
             /\ discord_bot = "None" /\ discord_bot' = "bot"
             /\ server = "stopped" /\ serial = 0]_vars
    /\ []((process = "main" /\ (server = "serving" \/ request # NoRequest))
              => discord_bot = "bot")
    /\ [](process = "webhook_server" => discord_bot = "None")

\* a request handed its notification to the bot in the combined process,
\* after an earlier request
C24_Witness ==
    /\ process = "main"
    /\ Submitted
    /\ serial = 2
    /\ discord_bot = "bot"


(***************************************************************************)
(* The commands (section 7 (e) of the specification).                       *)
(***************************************************************************)
\* the API call of the last command failed
ApiFailed == interaction.command # "none"
             /\ interaction.api \in ApiFailures

\* an ephemeral message that reports an error and names no result
Apologetic(reply) ==
    reply \in {ErrorReply,
               Reply("An error occurred while fetching repository status.", TRUE)}

\* C21: for each of /prs, /pr, /commits, /branches, /status and /assign,
\* when the call of the hosting platform's API fails, no exception leaves
\* the command handler and the user is sent an ephemeral error message of
\* the command, and nothing else.
C21_ApiFailureAnsweredWithError ==
    ApiFailed =>
        /\ ~interaction.escaped
        /\ Len(interaction.replies) = 1
        /\ Apologetic(interaction.replies[1])


=============================================================================
